---------------------------- MODULE Spec2Model ----------------------------
(***************************************************************************)
(* A model of lign/graph.py: class Node, class GraphDataset (the Graph     *)
(* Store) and class SubGraph (the Subgraph View).                          *)
(*                                                                         *)
(* Python objects are modelled by what they alias:                          *)
(*   - Node.__init__ has the mutable default argument data = {} and stores  *)
(*     it without copying (line 35), so every Node() built without a data   *)
(*     argument holds the SAME mapping; that one mapping is the variable    *)
(*     default_data.                                                        *)
(*   - __getitem__ assigns node.edges = self.dataset["edges"][indx]         *)
(*     (line 90): the returned Node holds the store's own set object.       *)
(*   - class Node defines no __getitem__, so the subscripts nd["data"]      *)
(*     (line 169) and nd["edges"] (lines 172, 251) raise TypeError.         *)
(* A mapping (dict) is a set of <<key, value>> pairs with distinct keys; a  *)
(* Python list is a sequence (list index i is sequence index i + 1).        *)
(***************************************************************************)
EXTENDS Integers, Sequences, FiniteSets, TLC

\* Largest node count of a loaded store.
MaxN == 2
\* Largest column value of a loaded store or of a caller's argument.
MaxVal == 1
\* Number of calls explored from the loaded store.
MaxSteps == 2

Keys == {"x", "y"}
Vals == 0..MaxVal
\* Indices a caller passes: the valid ones and one past the largest store.
Idx == 0..MaxN

VARIABLES dataset, default_data, held, sub, last, steps

vars == <<dataset, default_data, held, sub, last, steps>>

--------------------------------------------------------------------------
\* Helpers for mappings and lists.

Min(S) == CHOOSE m \in S : \A o \in S : m <= o

Max(S) == CHOOSE m \in S : \A o \in S : m >= o

DictKeys(d) == {p[1] : p \in d}

DictGet(d, k) == (CHOOSE p \in d : p[1] = k)[2]

DictSet(d, k, v) == {p \in d : p[1] # k} \cup {<<k, v>>}

\* range(n) as a list.
Range(n) == [i \in 1..(IF n > 0 THEN n ELSE 0) |-> i - 1]

\* A set of small non-negative ints in the order CPython iterates it.
RECURSIVE SetToSeq(_)
SetToSeq(S) == IF S = {} THEN <<>>
               ELSE LET m == Min(S) IN <<m>> \o SetToSeq(S \ {m})

SeqToSet(s) == {s[i] : i \in 1..Len(s)}

\* dataset["data"]: the columns in insertion order, as [key, col] records.
ColKeys(ds) == {ds.data[k].key : k \in 1..Len(ds.data)}

ColPos(ds, key) == CHOOSE k \in 1..Len(ds.data) : ds.data[k].key = key

Column(ds, key) == ds.data[ColPos(ds, key)].col

--------------------------------------------------------------------------
\* GraphDataset.__len__
StoreLen(ds) == ds.count

\* __getitem__ as the bug that wraps a negative index one place too far.
GetItem_OffByOne(ds, dd, indx) ==
    LET i    == IF indx < 0 THEN StoreLen(ds) + indx + 1 ELSE indx
        n    == Len(ds.data)
        bad  == {k \in 1..n : i >= Len(ds.data[k].col)}
        stop == IF bad = {} THEN n + 1 ELSE Min(bad)
        done == {ds.data[k].key : k \in 1..(stop - 1)}
        dd2  == {p \in dd : p[1] \notin done}
                  \cup {<<ds.data[k].key, ds.data[k].col[i + 1]>> : k \in 1..(stop - 1)}
    IN  IF indx < 0 /\ -indx > StoreLen(ds)
        THEN [dd |-> dd, err |-> "IndexError", src |-> 0]
        ELSE IF stop <= n \/ i >= Len(ds.edges)
        THEN [dd |-> dd2, err |-> "IndexError", src |-> 0]
        ELSE [dd |-> dd2, err |-> "none", src |-> i]

\* GraphDataset.__getitem__: Node() is built on the shared default mapping,
\* each column's value at indx is written into it in key order, then the
\* store's own edge set is attached.  Result: the default mapping afterwards,
\* the outcome, and the index whose edge set the returned Node aliases.
GetItem(ds, dd, indx) ==
    LET i    == IF indx < 0 THEN StoreLen(ds) + indx ELSE indx
        n    == Len(ds.data)
        bad  == {k \in 1..n : i >= Len(ds.data[k].col)}
        stop == IF bad = {} THEN n + 1 ELSE Min(bad)
        done == {ds.data[k].key : k \in 1..(stop - 1)}
        dd2  == {p \in dd : p[1] \notin done}
                  \cup {<<ds.data[k].key, ds.data[k].col[i + 1]>> : k \in 1..(stop - 1)}
    IN  IF indx < 0 /\ -indx > StoreLen(ds)
        THEN [dd |-> dd, err |-> "IndexError", src |-> 0]
        ELSE IF stop <= n
        THEN [dd |-> dd2, err |-> "IndexError", src |-> 0]
        ELSE IF i >= Len(ds.edges)
        THEN [dd |-> dd2, err |-> "IndexError", src |-> 0]
        ELSE [dd |-> dd2, err |-> "none", src |-> i]

\* GraphDataset.set_data, list columns.
SetData(ds, key, features, nodes) ==
    IF nodes = <<>>
    THEN [ds  |-> [ds EXCEPT !.data =
                     IF key \in ColKeys(ds)
                     THEN [ds.data EXCEPT ![ColPos(ds, key)].col = features]
                     ELSE Append(ds.data, [key |-> key, col |-> features])],
          err |-> "none"]
    ELSE IF key \notin ColKeys(ds)
    THEN [ds |-> ds, err |-> "KeyError"]
    ELSE LET col == Column(ds, key)
             \* first position of nodes whose write fails
             bad == {k \in 1..Len(nodes) : k > Len(features) \/ nodes[k] >= Len(col)}
             stop == IF bad = {} THEN Len(nodes) + 1 ELSE Min(bad)
             \* the last write to a cell wins
             col2 == [c \in 1..Len(col) |->
                        LET ws == {k \in 1..(stop - 1) : nodes[k] = c - 1}
                        IN  IF ws = {} THEN col[c] ELSE features[Max(ws)]]
         IN  [ds  |-> [ds EXCEPT !.data[ColPos(ds, key)].col = col2],
              err |-> IF stop <= Len(nodes) THEN "IndexError" ELSE "none"]

\* add_edge as the bug that assigns the given targets instead of adding them.
AddEdge_Replaces(ds, node, targets) ==
    IF node >= Len(ds.edges)
    THEN [ds |-> ds, err |-> "IndexError"]
    ELSE [ds  |-> [ds EXCEPT !.edges[node + 1] = targets],
          err |-> "none"]

\* GraphDataset.add_edge
AddEdge(ds, node, targets) ==
    IF node >= Len(ds.edges)
    THEN [ds |-> ds, err |-> "IndexError"]
    ELSE [ds  |-> [ds EXCEPT !.edges[node + 1] = @ \cup targets],
          err |-> "none"]

\* GraphDataset.remove_edge
RemoveEdge(ds, node, targets) ==
    IF node >= Len(ds.edges)
    THEN [ds |-> ds, err |-> "IndexError"]
    ELSE [ds  |-> [ds EXCEPT !.edges[node + 1] = @ \ targets],
          err |-> "none"]

\* GraphDataset.pop_data
PopData(ds, key) ==
    [ds  |-> [ds EXCEPT !.data = SelectSeq(ds.data, LAMBDA e : e.key # key)],
     err |-> "none"]

\* reset_temp as the bug that clears the listed mailboxes only, and none
\* when none is listed.
ResetTemp_OnlyListed(ds, nodes) ==
    [ds EXCEPT !.temp = [m \in 1..Len(ds.temp) |->
                           IF (m - 1) \in SeqToSet(nodes) THEN <<>> ELSE ds.temp[m]]]

\* GraphDataset.reset_temp
ResetTemp(ds, nodes) ==
    LET eff == IF nodes = <<>> THEN Range(StoreLen(ds)) ELSE nodes
    IN  [ds EXCEPT !.temp = [i \in 1..Len(eff) |-> <<>>]]


--------------------------------------------------------------------------
\* Reducers a caller may pass as func: len, and max (which raises ValueError
\* on an empty list and TypeError when it has to compare two Node objects).
Reducer(func, out) == IF func = "len" THEN Len(out) ELSE Max(SeqToSet(out))

\* A mailbox entry is the Node built by __getitem__(n): it is recorded as n,
\* the index whose edge set it aliases; its data is the default mapping.

\* GraphDataset.push.  With at least one node to visit, the first pass of the
\* loop of line 249 reads nd = self[node] and then raises at nd["edges"].
Push(ds, dd, func, data, nodes, reset) ==
    LET eff == IF nodes = <<>> THEN Range(StoreLen(ds)) ELSE nodes
    IN  IF eff # <<>>
        THEN LET g == GetItem(ds, dd, eff[1])
             IN  [ds |-> ds, dd |-> g.dd,
                  err |-> IF g.err # "none" THEN g.err ELSE "TypeError"]
        ELSE \* nothing to visit: the deposit loop and the reduction are empty
             [ds |-> IF reset THEN ResetTemp(ds, <<>>) ELSE ds,
              dd |-> dd, err |-> "none"]

\* The deposit loop of pull as the bug that takes every delivered edge out
\* of the edge table.
RECURSIVE PullScan_ConsumesEdges(_, _, _, _)
PullScan_ConsumesEdges(ds, dd, T, node) ==
    IF node >= StoreLen(ds)
    THEN [ds |-> ds, dd |-> dd, err |-> "none"]
    ELSE LET g == GetItem(ds, dd, node)
         IN  IF g.err # "none"
             THEN [ds |-> ds, dd |-> g.dd, err |-> g.err]
             ELSE LET tw   == T \cap ds.edges[node + 1]
                      temp == [m \in 1..Len(ds.temp) |->
                                 IF (m - 1) \in tw THEN Append(ds.temp[m], node)
                                 ELSE ds.temp[m]]
                      ds2  == [ds EXCEPT !.temp = temp, !.edges[node + 1] = @ \ tw]
                  IN  IF \E el \in tw : el >= Len(ds.temp)
                      THEN [ds |-> ds2, dd |-> g.dd, err |-> "IndexError"]
                      ELSE PullScan_ConsumesEdges(ds2, g.dd, T, node + 1)

\* The deposit loop of pull (lines 201-206) from node on, T the target set.
RECURSIVE PullScan(_, _, _, _)
PullScan(ds, dd, T, node) ==
    IF node >= StoreLen(ds)
    THEN [ds |-> ds, dd |-> dd, err |-> "none"]
    ELSE LET g == GetItem(ds, dd, node)
         IN  IF g.err # "none"
             THEN [ds |-> ds, dd |-> g.dd, err |-> g.err]
             ELSE LET tw   == T \cap ds.edges[node + 1]
                      \* in iteration order the slots that exist come first
                      temp == [m \in 1..Len(ds.temp) |->
                                 IF (m - 1) \in tw THEN Append(ds.temp[m], node)
                                 ELSE ds.temp[m]]
                      ds2  == [ds EXCEPT !.temp = temp]
                  IN  IF \E el \in tw : el >= Len(ds.temp)
                      THEN [ds |-> ds2, dd |-> g.dd, err |-> "IndexError"]
                      ELSE PullScan(ds2, g.dd, T, node + 1)

\* The reduction of one column (lines 210-214) over the targets in todo.
RECURSIVE ReduceColumn(_, _, _, _, _)
ReduceColumn(ds, dd, func, data, todo) ==
    IF todo = <<>> THEN [ds |-> ds, err |-> "none"]
    ELSE LET node == Head(todo)
         IN  IF node >= Len(ds.temp) THEN [ds |-> ds, err |-> "IndexError"]
             ELSE LET box == ds.temp[node + 1]
                  IN  IF box # <<>> /\ data \notin DictKeys(dd)
                      THEN [ds |-> ds, err |-> "KeyError"]
                      ELSE IF box = <<>> /\ func = "max"
                      THEN [ds |-> ds, err |-> "ValueError"]
                      ELSE IF data \notin ColKeys(ds)
                      THEN [ds |-> ds, err |-> "KeyError"]
                      ELSE IF node >= Len(Column(ds, data))
                      THEN [ds |-> ds, err |-> "IndexError"]
                      ELSE LET out == [i \in 1..Len(box) |-> DictGet(dd, data)]
                               v   == Reducer(func, out)
                           IN  ReduceColumn(
                                 [ds EXCEPT !.data[ColPos(ds, data)].col[node + 1] = v],
                                 dd, func, data, Tail(todo))

\* The whole-node reduction (lines 216-235): func runs on every target's
\* mailbox, then node.data is read off an int.
ReduceNodes(ds, func, T) ==
    LET fails(node) == \/ node >= Len(ds.temp)
                       \/ func = "max" /\ Len(ds.temp[node + 1]) # 1
        bad == {node \in T : fails(node)}
        b   == Min(bad)
    IN  [ds  |-> ds,
         err |-> IF bad = {} THEN "AttributeError"
                 ELSE IF b >= Len(ds.temp) THEN "IndexError"
                 ELSE IF ds.temp[b + 1] = <<>> THEN "ValueError"
                 ELSE "TypeError"]

\* pull with no targets as the bug that drops reset_buffer on the way out
\* and always resets.
PullAll_AlwaysResets(ds, dd, func, data, reset) ==
    LET r == Push(ds, dd, func, data, <<>>, reset)
    IN  IF r.err # "none" THEN r
        ELSE [ds |-> ResetTemp(r.ds, <<>>), dd |-> r.dd, err |-> "none"]

\* GraphDataset.pull with no targets (lines 194-196, then 237-240): push
\* does the work, and the reset is applied once more on the way out.
PullAll(ds, dd, func, data, reset) ==
    LET r == Push(ds, dd, func, data, <<>>, reset)
    IN  IF r.err # "none" THEN r
        ELSE [ds |-> IF reset THEN ResetTemp(r.ds, <<>>) ELSE r.ds,
              dd |-> r.dd, err |-> "none"]

\* GraphDataset.pull
Pull(ds, dd, func, data, nodes, reset) ==
    IF nodes = <<>>
    THEN PullAll(ds, dd, func, data, reset)
    ELSE LET T == SeqToSet(nodes)
             s == PullScan(ds, dd, T, 0)
         IN  IF s.err # "none" THEN s
             ELSE LET r == IF func = "none" THEN [ds |-> s.ds, err |-> "none"]
                           ELSE IF data # ""
                           THEN ReduceColumn(s.ds, s.dd, func, data, SetToSeq(T))
                           ELSE ReduceNodes(s.ds, func, T)
                  IN  IF r.err # "none"
                      THEN [ds |-> r.ds, dd |-> s.dd, err |-> r.err]
                      ELSE [ds |-> IF reset THEN ResetTemp(r.ds, <<>>) ELSE r.ds,
                            dd |-> s.dd, err |-> "none"]

--------------------------------------------------------------------------
\* A Node object: where its data and its edges live.
\*   dref = "default": data is the shared default mapping (Node() with no data)
\*   dref = "own":     data is the mapping own, the caller's
\*   eref = "store":   edges is the store's edge set of node src (from get)
\*   eref = "own":     edges is a set of the Node's own (set(edges), line 36)
NewNode == [dref |-> "default", own |-> {}, eref |-> "own", src |-> 0]

NodeOf(d) == [dref |-> "own", own |-> d, eref |-> "own", src |-> 0]

Snapshot(i) == [dref |-> "default", own |-> {}, eref |-> "store", src |-> i]

NodeKeys(dd, nd) == IF nd.dref = "default" THEN DictKeys(dd) ELSE DictKeys(nd.own)

\* One pass of the loop of add (lines 157-175): the self edge goes into the
\* node's edge set, the keys are compared, and nd["data"] raises.
AddNode(ds, dd, nd, add_self) ==
    LET ds2 == IF add_self /\ nd.eref = "store"
               THEN [ds EXCEPT !.edges[nd.src + 1] = @ \cup {StoreLen(ds)}]
               ELSE ds
        mutual_data == ColKeys(ds2) \cap NodeKeys(dd, nd)
    IN  IF Cardinality(mutual_data) # Cardinality(ColKeys(ds2))
        THEN [ds |-> ds2, err |-> "ValueError"]
        ELSE [ds |-> ds2, err |-> "TypeError"]

RECURSIVE AddLoop(_, _, _, _)
AddLoop(ds, dd, list, add_self) ==
    IF list = <<>> THEN [ds |-> ds, err |-> "none"]
    ELSE LET r == AddNode(ds, dd, Head(list), add_self)
         IN  IF r.err # "none" THEN r
             ELSE AddLoop(r.ds, dd, Tail(list), add_self)

\* GraphDataset.add.  nodes is [kind, n, list]: None, an int, or Nodes.
Add(ds, dd, nodes, add_self) ==
    LET falsy == \/ nodes.kind = "none"
                 \/ nodes.kind = "int" /\ nodes.n = 0
                 \/ nodes.kind = "nodes" /\ nodes.list = <<>>
        list  == IF falsy THEN <<NewNode>>
                 ELSE IF nodes.kind = "int"
                 THEN [i \in 1..(IF nodes.n > 0 THEN nodes.n ELSE 0) |-> NewNode]
                 ELSE nodes.list
    IN  AddLoop(ds, dd, list, add_self)

--------------------------------------------------------------------------
\* The Subgraph View.  Its own store starts as the default artifact that
\* GraphDataset.__init__ loads when no file is named.
DefaultArtifact == [count |-> 0, data |-> <<>>, edges |-> <<>>, temp |-> <<>>]

NoSub == [status |-> "none", err |-> "none", dataset |-> DefaultArtifact,
          shared |-> {}, p_nodes |-> <<>>, i_nodes |-> <<>>]

\* GraphDataset.get_data, list columns.  With no nodes the column object
\* itself is returned (shared), else a new list.
GetData(ds, data, nodes) ==
    IF data \notin ColKeys(ds)
    THEN [val |-> <<>>, shared |-> FALSE, err |-> "KeyError"]
    ELSE IF nodes = <<>>
    THEN [val |-> Column(ds, data), shared |-> TRUE, err |-> "none"]
    ELSE IF \E k \in 1..Len(nodes) : nodes[k] >= Len(Column(ds, data))
    THEN [val |-> <<>>, shared |-> FALSE, err |-> "IndexError"]
    ELSE [val |-> [k \in 1..Len(nodes) |-> Column(ds, data)[nodes[k] + 1]],
          shared |-> FALSE, err |-> "none"]

\* SubGraph.get_parent_data (with peek_parent_data)
GetParentData(sb, parent, data) ==
    LET p_data == GetData(parent, data, sb.p_nodes)
    IN  IF p_data.err # "none" THEN [sb EXCEPT !.err = p_data.err]
        ELSE [sb EXCEPT !.dataset = SetData(sb.dataset, data, p_data.val, <<>>).ds,
                        !.shared  = IF p_data.shared THEN @ \cup {data} ELSE @ \ {data}]

\* SubGraph.get_all_parent_data, from the k-th parent property on
RECURSIVE GetAllParentData(_, _, _)
GetAllParentData(sb, parent, k) ==
    IF k > Len(parent.data) \/ sb.err # "none" THEN sb
    ELSE GetAllParentData(GetParentData(sb, parent, parent.data[k].key), parent, k + 1)

\* list.index
IndexOf(list, v) == Min({k \in 1..Len(list) : list[k] = v}) - 1

\* SubGraph.get_parent_edges: node indexes the parent's edge table and the
\* subgraph's own.
RECURSIVE GetParentEdges(_, _, _)
GetParentEdges(sb, parent, nodes) ==
    IF nodes = <<>> \/ sb.err # "none" THEN sb
    ELSE LET node == Head(nodes)
         IN  IF node >= Len(parent.edges) \/ node >= Len(sb.dataset.edges)
             THEN [sb EXCEPT !.err = "IndexError"]
             ELSE LET mutual_edges == parent.edges[node + 1] \cap SeqToSet(sb.p_nodes)
                      edge == {IndexOf(sb.p_nodes, ed) : ed \in mutual_edges}
                  IN  GetParentEdges([sb EXCEPT !.dataset.edges[node + 1] = edge],
                                     parent, Tail(nodes))

\* SubGraph.get_all_parent_edges
GetAllParentEdges(sb, parent) == GetParentEdges(sb, parent, sb.p_nodes)

\* SubGraph.get_parent_node from the k-th requested index on.  Every pass
\* builds a Node on the default mapping, fills it from the parent's columns
\* at the requested index, appends to both index lists and calls add.
RECURSIVE GetParentNodeLoop(_, _, _, _, _)
GetParentNodeLoop(sb, parent, dd, nodes, k) ==
    IF k > Len(nodes) \/ sb.err # "none" THEN [sb |-> sb, dd |-> dd]
    ELSE LET node   == nodes[k]
             mutual == ColKeys(sb.dataset) \cap ColKeys(parent)
         IN  IF \E mut \in mutual : node >= Len(Column(parent, mut))
             THEN [sb |-> [sb EXCEPT !.err = "IndexError"], dd |-> dd]
             ELSE LET dd2 == {p \in dd : p[1] \notin mutual}
                               \cup {<<mut, Column(parent, mut)[node + 1]>> : mut \in mutual}
                      a   == Add(sb.dataset, dd2,
                                 [kind |-> "nodes", n |-> 0, list |-> <<NewNode>>], TRUE)
                      sb2 == [sb EXCEPT !.i_nodes = Append(@, StoreLen(sb.dataset)),
                                        !.p_nodes = Append(@, node),
                                        !.dataset = a.ds,
                                        !.err     = a.err]
                  IN  GetParentNodeLoop(sb2, parent, dd2, nodes, k + 1)

\* SubGraph.get_parent_node
GetParentNode(sb, parent, dd, nodes, get_data, get_edges) ==
    LET mutual_data == ColKeys(sb.dataset) \cap ColKeys(parent)
    IN  IF Cardinality(mutual_data) # Cardinality(ColKeys(sb.dataset))
        THEN [sb |-> [sb EXCEPT !.err = "LookupError"], dd |-> dd]
        ELSE LET l   == GetParentNodeLoop(sb, parent, dd, nodes, 1)
                 sb2 == IF get_data /\ l.sb.err = "none"
                        THEN GetAllParentData(l.sb, parent, 1) ELSE l.sb
                 sb3 == IF get_edges /\ sb2.err = "none"
                        THEN GetAllParentEdges(sb2, parent) ELSE sb2
             IN  [sb |-> sb3, dd |-> l.dd]

\* SubGraph.__init__
SubGraphInit(parent, dd, nodes, get_data, get_edges) ==
    LET sb0 == [NoSub EXCEPT !.p_nodes = nodes, !.i_nodes = Range(Len(nodes))]
        a   == Add(sb0.dataset, dd,
                   [kind |-> "int", n |-> Len(nodes), list |-> <<>>], TRUE)
        sb1 == [sb0 EXCEPT !.dataset = a.ds, !.err = a.err]
        sb2 == IF get_data THEN GetAllParentData(sb1, parent, 1) ELSE sb1
        sb3 == IF get_edges /\ sb2.err = "none"
               THEN GetAllParentEdges(sb2, parent) ELSE sb2
    IN  IF sb1.err # "none" THEN [sb1 EXCEPT !.status = "raised"]
        ELSE [sb3 EXCEPT !.status = IF sb3.err = "none" THEN "built" ELSE "raised"]

--------------------------------------------------------------------------
\* Predicates a caller passes to filter: each maps the column to a mask,
\* true where the value is 0 ("zero"), or the largest loaded value ("top").
Holds(fun, v) == IF fun = "zero" THEN v = 0 ELSE v = MaxVal

\* The mask a predicate returns for a column.
Mask(fun, col) == [i \in 1..Len(col) |-> Holds(fun, col[i])]

\* torch.nonzero(out).squeeze(): the positions of the true entries in
\* ascending order; squeeze turns a single position into a 0-dimensional
\* result (dim 0, val the position) and leaves any other count a list.
NonzeroSqueeze(out) ==
    LET nz == SetToSeq({i - 1 : i \in {j \in 1..Len(out) : out[j]}})
    IN  IF Len(nz) = 1 THEN [dim |-> 0, val |-> nz[1]]
        ELSE [dim |-> 1, val |-> nz]

\* filter as the bug that applies the first predicate only.
Filter_FirstOnly(ds, filters, data) ==
    IF filters = <<>> THEN [err |-> "ValueError", ret |-> <<>>]
    ELSE IF data \notin ColKeys(ds) THEN [err |-> "KeyError", ret |-> <<>>]
    ELSE [err |-> "none", ret |-> NonzeroSqueeze(Mask(filters[1], Column(ds, data)))]

\* The loop of lines 321-322: out |= fun(column) for the predicates from
\* the k-th on.
RECURSIVE OrMasks(_, _, _, _)
OrMasks(filters, col, k, out) ==
    IF k > Len(filters) THEN out
    ELSE OrMasks(filters, col, k + 1,
                 [i \in 1..Len(out) |-> out[i] \/ Mask(filters[k], col)[i]])

\* GraphDataset.filter
Filter(ds, filters, data) ==
    IF filters = <<>> THEN [err |-> "ValueError", ret |-> <<>>]
    ELSE IF data \notin ColKeys(ds) THEN [err |-> "KeyError", ret |-> <<>>]
    ELSE LET col == Column(ds, data)
             out == OrMasks(filters, col, 2, Mask(filters[1], col))
         IN  [err |-> "none", ret |-> NonzeroSqueeze(out)]

--------------------------------------------------------------------------
\* The top-level fields of a persisted artifact.
ArtifactFields == {"count", "data", "edges", "__temp__"}

\* GraphDataset.__init__ on an unpickled mapping that has the top-level
\* fields present: the bare raise of line 69 runs when none of the four is
\* there, and every exception becomes FileNotFoundError.
Load(present) ==
    IF /\ "count" \notin present /\ "data" \notin present
       /\ "edges" \notin present /\ "__temp__" \notin present
    THEN "FileNotFoundError"
    ELSE "none"

--------------------------------------------------------------------------
\* The stores a run starts from: a well-formed artifact, loaded.

\* Edge tables of a store of n nodes.
Topology(n, shape) ==
    [i \in 1..n |->
       IF shape = "self" THEN {i - 1}
       ELSE IF shape = "chain" THEN (IF i < n THEN {i} ELSE {})
       ELSE IF shape = "all" THEN 0..(n - 1)
       ELSE {}]

Shapes == {"none", "self", "chain", "all"}

Artifacts ==
    {[count |-> n,
      data  |-> IF withx
                THEN <<[key |-> "x", col |-> [i \in 1..n |-> (i - 1) % (MaxVal + 1)]]>>
                ELSE <<>>,
      edges |-> Topology(n, shape),
      temp  |-> [i \in 1..n |-> <<>>]]
       : n \in 0..MaxN, shape \in Shapes, withx \in BOOLEAN}

NoNode == [kind |-> "none", src |-> 0]

\* What the last call was: its name, its arguments and how it ended.  note
\* is what the caller has in hand besides: the value the call returned, or a
\* copy the caller took before the call.
Call(op, err, func, data, nodes, reset, arg) ==
    [op |-> op, err |-> err, func |-> func, data |-> data, nodes |-> nodes,
     reset |-> reset, arg |-> arg, note |-> <<>>]

Init ==
    /\ dataset \in Artifacts
    /\ default_data = {}
    /\ held = NoNode
    /\ sub = NoSub
    /\ steps = 0
    /\ last = Call("load", "none", "none", "", <<>>, FALSE, ArtifactFields)

--------------------------------------------------------------------------
\* The arguments callers pass.

\* Target lists: none, one index, or every index of a full-size store.
TargetLists == {<<>>} \cup {<<t>> : t \in Idx} \cup {Range(MaxN)}

\* Edge targets a caller passes to add_edge and remove_edge.
TargetSets == {{0}, {MaxN - 1}, Idx}

\* Target lists of push: none, the first node, every node of a full store.
PushLists == {<<>>, <<0>>, Range(MaxN)}

\* Whole columns a caller writes, one of each length.
ColumnLists == {[i \in 1..l |-> i % (MaxVal + 1)] : l \in 0..MaxN}

\* func, data, reset_buffer
ReduceArgs == {<<"none", "", TRUE>>, <<"none", "", FALSE>>, <<"len", "x", TRUE>>,
               <<"max", "x", FALSE>>, <<"len", "", TRUE>>}

\* Nodes a caller builds: Node(), Node({"x": 0}), Node({"x": 0, "y": 0}).
AddArgs ==
    {[kind |-> "none", n |-> 0, list |-> <<>>]}
      \cup {[kind |-> "int", n |-> k, list |-> <<>>] : k \in {-1, MaxN}}
      \cup {[kind |-> "nodes", n |-> 0, list |-> l] :
              l \in {<<NodeOf({<<"x", 0>>})>>,
                     <<NodeOf({<<"x", 0>>, <<"y", 0>>})>>,
                     <<NodeOf({<<"x", 0>>}), NodeOf({})>>}}

\* Artifacts a caller loads, by the top-level fields they have: all four,
\* one missing, none.
FieldSets == {ArtifactFields, ArtifactFields \ {"count"},
              ArtifactFields \ {"__temp__"}, {}}

\* Predicate lists a caller passes to filter.
FilterLists == {<<>>, <<"top">>, <<"zero", "top">>}

\* Parent indices a subgraph is built from.
ParentLists == {Range(l) : l \in 0..MaxN} \cup {<<MaxN - 1, 0, MaxN - 1>>}

--------------------------------------------------------------------------
\* One action per call.

Tick == steps < MaxSteps /\ steps' = steps + 1

Get(indx) ==
    LET g == GetItem(dataset, default_data, indx)
    IN  /\ Tick
        /\ default_data' = g.dd
        /\ held' = IF g.err = "none" THEN [kind |-> "snap", src |-> g.src] ELSE held
        /\ last' = Call("get", g.err, "none", "", <<>>, FALSE, indx)
        /\ UNCHANGED <<dataset, sub>>

SetColumn(key, features, nodes) ==
    LET r == SetData(dataset, key, features, nodes)
    IN  /\ Tick
        /\ dataset' = r.ds
        /\ last' = Call("set_data", r.err, "none", key, nodes, FALSE, features)
        /\ UNCHANGED <<default_data, held, sub>>

DoAddEdge(node, targets) ==
    LET r == AddEdge(dataset, node, targets)
    IN  /\ Tick
        /\ dataset' = r.ds
        \* the caller keeps a copy of edges[node] as it was before the call
        /\ last' = [Call("add_edge", r.err, "none", "", <<node>>, FALSE, targets)
                      EXCEPT !.note = IF r.err = "none"
                                      THEN <<dataset.edges[node + 1]>> ELSE <<>>]
        /\ UNCHANGED <<default_data, held, sub>>

DoRemoveEdge(node, targets) ==
    LET r == RemoveEdge(dataset, node, targets)
    IN  /\ Tick
        /\ dataset' = r.ds
        \* after add_edge(node, targets) the caller still has its copy
        /\ last' = [Call("remove_edge", r.err, "none", "", <<node>>, FALSE, targets)
                      EXCEPT !.note = IF /\ last.op = "add_edge" /\ last.err = "none"
                                         /\ last.nodes = <<node>> /\ last.arg = targets
                                         /\ r.err = "none"
                                      THEN last.note ELSE <<>>]
        /\ UNCHANGED <<default_data, held, sub>>

PopColumn(key) ==
    LET r == PopData(dataset, key)
    IN  /\ Tick
        /\ dataset' = r.ds
        /\ last' = Call("pop_data", r.err, "none", key, <<>>, FALSE, <<>>)
        /\ UNCHANGED <<default_data, held, sub>>

DoAdd(nodes, add_self) ==
    LET r == Add(dataset, default_data, nodes, add_self)
    IN  /\ Tick
        /\ dataset' = r.ds
        /\ last' = Call("add", r.err, "none", "", <<>>, add_self, nodes)
        /\ UNCHANGED <<default_data, held, sub>>

\* add(nd) with nd a Node the caller got from get
AddHeld(add_self) ==
    /\ held.kind = "snap"
    /\ DoAdd([kind |-> "nodes", n |-> 0, list |-> <<Snapshot(held.src)>>], add_self)

DoPush(func, data, nodes, reset) ==
    LET r == Push(dataset, default_data, func, data, nodes, reset)
    IN  /\ Tick
        /\ dataset' = r.ds
        /\ default_data' = r.dd
        /\ last' = Call("push", r.err, func, data, nodes, reset, <<>>)
        /\ UNCHANGED <<held, sub>>

DoPull(func, data, nodes, reset) ==
    LET r == Pull(dataset, default_data, func, data, nodes, reset)
    IN  /\ Tick
        /\ dataset' = r.ds
        /\ default_data' = r.dd
        /\ last' = Call("pull", r.err, func, data, nodes, reset, <<>>)
        /\ UNCHANGED <<held, sub>>

ResetMailbox(nodes) ==
    /\ Tick
    /\ dataset' = ResetTemp(dataset, nodes)
    /\ last' = Call("reset_temp", "none", "none", "", nodes, FALSE, <<>>)
    /\ UNCHANGED <<default_data, held, sub>>

\* GraphDataset(fl) on another artifact: the store in hand is not touched.
DoLoad(present) ==
    /\ Tick
    /\ last' = Call("load", Load(present), "none", "", <<>>, FALSE, present)
    /\ UNCHANGED <<dataset, default_data, held, sub>>

\* filter: the caller keeps what it returned.
DoFilter(filters, data) ==
    LET r == Filter(dataset, filters, data)
    IN  /\ Tick
        /\ last' = [Call("filter", r.err, "none", data, <<>>, FALSE, filters)
                      EXCEPT !.note = r.ret]
        /\ UNCHANGED <<dataset, default_data, held, sub>>

NewSubGraph(nodes, get_data, get_edges) ==
    LET sb == SubGraphInit(dataset, default_data, nodes, get_data, get_edges)
    IN  /\ Tick
        /\ sub' = sb
        /\ last' = Call("subgraph", sb.err, "none", "", nodes, get_data, get_edges)
        /\ UNCHANGED <<dataset, default_data, held>>

Next ==
    \/ \E nodes \in TargetLists : ResetMailbox(nodes)
    \/ \E indx \in (-MaxN - 1)..MaxN : Get(indx)
    \/ \E key \in Keys, features \in ColumnLists : SetColumn(key, features, <<>>)
    \/ \E key \in Keys, nd \in Idx : SetColumn(key, <<MaxVal>>, <<nd>>)
    \/ \E node \in Idx, targets \in TargetSets : DoAddEdge(node, targets)
    \/ \E node \in Idx, targets \in TargetSets : DoRemoveEdge(node, targets)
    \/ \E key \in Keys : PopColumn(key)
    \/ \E nodes \in AddArgs, add_self \in BOOLEAN : DoAdd(nodes, add_self)
    \/ \E add_self \in BOOLEAN : AddHeld(add_self)
    \/ \E a \in ReduceArgs, nodes \in PushLists : DoPush(a[1], a[2], nodes, a[3])
    \/ \E a \in ReduceArgs, nodes \in TargetLists : DoPull(a[1], a[2], nodes, a[3])
    \/ \E nodes \in ParentLists, g \in BOOLEAN : NewSubGraph(nodes, g, g)
    \/ \E present \in FieldSets : DoLoad(present)
    \/ \E filters \in FilterLists, key \in Keys : DoFilter(filters, key)

Spec == Init /\ [][Next]_vars

--------------------------------------------------------------------------
\* What the properties speak of.

AllEmpty(temp) == \A m \in 1..Len(temp) : temp[m] = <<>>

WellFormed(ds) ==
    /\ Len(ds.edges) = ds.count
    /\ Len(ds.temp) = ds.count
    /\ \A k \in 1..Len(ds.data) : Len(ds.data[k].col) = ds.count

Nodes(ds) == 0..(ds.count - 1)

\* The mailbox entry, read now (its data is the mapping dd), shows node t of
\* ds: it carries t's edge set and t's value of every column.
IsSnapshotOf(entry, t, ds, dd) ==
    /\ entry = t
    /\ \A k \in 1..Len(ds.data) :
         /\ ds.data[k].key \in DictKeys(dd)
         /\ t < Len(ds.data[k].col)
         /\ DictGet(dd, ds.data[k].key) = ds.data[k].col[t + 1]

\* box holds one snapshot of each node of S and nothing else.
HoldsExactly(box, S, ds, dd) ==
    /\ Len(box) = Cardinality(S)
    /\ \A t \in S : \E i \in 1..Len(box) : IsSnapshotOf(box[i], t, ds, dd)

\* The targets of a push or pull call.
Targets(ds, nodes) == IF nodes = <<>> THEN Nodes(ds) ELSE SeqToSet(nodes)

--------------------------------------------------------------------------
\* C1: in every reachable state count equals the length of the edge table,
\* of the mailbox buffer and of every column.
C1_LengthsAgree == WellFormed(dataset)

\* C2: a push with no reducer and reset=false, on a store whose mailboxes are
\* empty, leaves in mailbox[e] exactly one snapshot of each target t with
\* e in edges[t], for every node e.
C2_PushDeposits ==
    [][ ( /\ last'.op = "push" /\ last'.func = "none" /\ ~last'.reset
          /\ WellFormed(dataset) /\ AllEmpty(dataset.temp)
          /\ Targets(dataset, last'.nodes) \subseteq Nodes(dataset) )
        => /\ Len(dataset'.temp) = dataset.count
           /\ \A e \in Nodes(dataset) :
                HoldsExactly(dataset'.temp[e + 1],
                             {t \in Targets(dataset, last'.nodes) : e \in dataset.edges[t + 1]},
                             dataset', default_data') ]_vars

\* C3: a pull with targets T, no reducer and reset=false, on a store whose
\* mailboxes are empty, leaves in mailbox[e], for e in T, exactly one
\* snapshot of every node n with e in edges[n], and leaves every other
\* mailbox as it was.
C3_PullDeposits ==
    [][ ( /\ last'.op = "pull" /\ last'.func = "none" /\ ~last'.reset
          /\ last'.nodes # <<>> /\ last'.err = "none"
          /\ WellFormed(dataset) /\ AllEmpty(dataset.temp) )
        => /\ Len(dataset'.temp) = dataset.count
           /\ \A e \in Nodes(dataset) :
                IF e \in SeqToSet(last'.nodes)
                THEN HoldsExactly(dataset'.temp[e + 1],
                                  {n \in Nodes(dataset) : e \in dataset.edges[n + 1]},
                                  dataset', default_data')
                ELSE dataset'.temp[e + 1] = dataset.temp[e + 1] ]_vars

\* What a pull over targets T deposits in mailbox e, in scan order.
PullDeposit(ds, T, e) ==
    SetToSeq({n \in Nodes(ds) : e \in T /\ n < Len(ds.edges) /\ e \in ds.edges[n + 1]})

\* What a push over the given targets deposits in mailbox e.
PushDeposit(ds, nodes, e) ==
    SetToSeq({t \in Targets(ds, nodes) \cap Nodes(ds) :
                t < Len(ds.edges) /\ e \in ds.edges[t + 1]})

\* C4: after a push or pull that returns normally with reset=true there is
\* one empty mailbox per node; with reset=false every mailbox holds what it
\* held before followed by what the call deposited.
C4_ResetClears ==
    [][ (last'.op \in {"push", "pull"} /\ last'.err = "none")
        => IF last'.reset
           THEN Len(dataset'.temp) = dataset'.count /\ AllEmpty(dataset'.temp)
           ELSE /\ Len(dataset'.temp) = Len(dataset.temp)
                /\ \A m \in 1..Len(dataset.temp) :
                     dataset'.temp[m] = dataset.temp[m] \o
                       (IF last'.op = "pull" /\ last'.nodes # <<>>
                        THEN PullDeposit(dataset, SeqToSet(last'.nodes), m - 1)
                        ELSE PushDeposit(dataset, last'.nodes, m - 1)) ]_vars

\* A pull with reset=true has returned normally after depositing a snapshot.
C4_Witness ==
    /\ last.op = "pull" /\ last.err = "none" /\ last.reset /\ last.nodes # <<>>
    /\ \E e \in SeqToSet(last.nodes) : PullDeposit(dataset, {e}, e) # <<>>
    /\ Len(dataset.temp) = dataset.count /\ AllEmpty(dataset.temp)

\* The list of Nodes an add call is given.
GivenNodes(nodes) ==
    IF nodes.kind = "nodes" THEN nodes.list
    ELSE IF nodes.kind = "int" THEN [i \in 1..(IF nodes.n > 0 THEN nodes.n ELSE 0) |-> NewNode]
    ELSE <<NewNode>>

NodeData(dd, nd) == IF nd.dref = "default" THEN dd ELSE nd.own

\* C5: an add whose list holds a node with other data keys than the store's
\* columns fails with the schema error (ValueError) and leaves count, the
\* columns, the edge table and the mailbox buffer as they were.
C5_AddRejectsAtomically ==
    [][ ( /\ last'.op = "add"
          /\ \E k \in 1..Len(GivenNodes(last'.arg)) :
               NodeKeys(default_data, GivenNodes(last'.arg)[k]) # ColKeys(dataset) )
        => (last'.err = "ValueError" /\ dataset' = dataset) ]_vars

\* C6: an add of n >= 0 nodes whose data keys are the store's columns makes
\* count n larger and every column n longer, the nodes' values appended in
\* the order given.
C6_AddAppends ==
    [][ ( /\ last'.op = "add"
          /\ (last'.arg.kind = "int" => last'.arg.n >= 0)
          /\ \A k \in 1..Len(GivenNodes(last'.arg)) :
               NodeKeys(default_data, GivenNodes(last'.arg)[k]) = ColKeys(dataset) )
        => LET list == GivenNodes(last'.arg)
           IN  /\ dataset'.count = dataset.count + Len(list)
               /\ Len(dataset'.data) = Len(dataset.data)
               /\ \A c \in 1..Len(dataset.data) :
                    dataset'.data[c].col = dataset.data[c].col \o
                      [k \in 1..Len(list) |->
                         DictGet(NodeData(default_data, list[k]), dataset.data[c].key)] ]_vars

\* C7: after a subgraph is built over the parent indices M with its edges
\* pulled from the parent, each child c has the parent's edges of M[c] that
\* stay inside M, as child indices.
C7_ParentEdgesReindexed ==
    ( /\ last.op = "subgraph" /\ last.arg = TRUE
      /\ \A c \in 1..Len(sub.p_nodes) : sub.p_nodes[c] < Len(dataset.edges) )
    => /\ Len(sub.dataset.edges) = Len(sub.p_nodes)
       /\ \A c \in 1..Len(sub.p_nodes) :
            /\ sub.dataset.edges[c] \subseteq 0..(Len(sub.p_nodes) - 1)
            /\ {sub.p_nodes[j + 1] : j \in sub.dataset.edges[c]}
                 = dataset.edges[sub.p_nodes[c] + 1] \cap SeqToSet(sub.p_nodes)

\* C9: once a subgraph has been constructed from a list of parent indices,
\* its child-to-parent map is as long as its count.
C9_MapLengthIsCount ==
    sub.status # "none"
    => (sub.status = "built" /\ Len(sub.p_nodes) = sub.dataset.count)

\* C10: from one store state and with the same reducer, column and reset
\* arguments, push() and pull() with no targets leave the same mailboxes,
\* columns and edges.
C10_PullAllIsPush ==
    \A a \in ReduceArgs :
      LET pl == Pull(dataset, default_data, a[1], a[2], <<>>, a[3])
          ps == Push(dataset, default_data, a[1], a[2], <<>>, a[3])
      IN  pl.ds = ps.ds /\ pl.err = ps.err

\* pull() with no targets has been called and has returned normally.
C10_Witness ==
    last.op = "pull" /\ last.nodes = <<>> /\ last.err = "none"

\* C11: add_edge(i, X) followed by remove_edge(i, X) leaves edges[i] equal
\* to its value before the two calls without the elements of X; the value
\* is restored when X shares no element with it.
C11_RoundTripRemovesX ==
    (last.op = "remove_edge" /\ last.note # <<>>)
    => LET before == last.note[1]
           now    == dataset.edges[last.nodes[1] + 1]
       IN  /\ now = before \ last.arg
           /\ (before \cap last.arg = {} => now = before)

\* C11 as stated: add_edge(i, X) followed by remove_edge(i, X) restores
\* edges[i] to its value before the two calls, for any X.
C11_RoundTripRestores ==
    (last.op = "remove_edge" /\ last.note # <<>>)
    => dataset.edges[last.nodes[1] + 1] = last.note[1]

\* add_edge(i, X) then remove_edge(i, X) have run on a node that had an edge
\* in X and an edge outside X.
C11_Witness ==
    /\ last.op = "remove_edge" /\ last.note # <<>>
    /\ last.note[1] \cap last.arg # {}
    /\ last.note[1] \ last.arg # {}
    /\ dataset.edges[last.nodes[1] + 1] = last.note[1] \ last.arg

\* C12: on a valid store get(i), for i in [0, len), returns a node whose
\* edge set is the edge table's entry at i (and whose data holds every
\* column's value at i), and get(-k), for 1 <= k <= len, returns what
\* get(len - k) returns, in data and edges.
C12_GetReadsNode ==
    /\ WellFormed(dataset)
       => /\ \A i \in Nodes(dataset) :
               LET g == GetItem(dataset, default_data, i)
               IN  /\ g.err = "none"
                   /\ dataset.edges[g.src + 1] = dataset.edges[i + 1]
                   /\ IsSnapshotOf(g.src, i, dataset, g.dd)
          /\ \A k \in 1..dataset.count :
               GetItem(dataset, default_data, -k)
                 = GetItem(dataset, default_data, dataset.count - k)
    /\ (last.op = "get" /\ last.err = "none")
       => /\ held.kind = "snap"
          /\ held.src = IF last.arg < 0 THEN dataset.count + last.arg ELSE last.arg

\* get(-k) has returned, on a valid store of more than one node, the node
\* len - k with its edges.
C12_Witness ==
    /\ last.op = "get" /\ last.err = "none" /\ last.arg < 0
    /\ WellFormed(dataset) /\ dataset.count > 1
    /\ held.src = dataset.count + last.arg
    /\ dataset.edges[held.src + 1] # {}
    /\ IsSnapshotOf(held.src, held.src, dataset, default_data)

\* C13: a push with a reducer func and a column, on a valid store whose
\* mailboxes are empty, leaves at every index whose mailbox the call
\* populated func of the column's values of the nodes deposited there.
C13_PushReduces ==
    [][ ( /\ last'.op = "push" /\ last'.func # "none"
          /\ last'.data \in ColKeys(dataset)
          /\ WellFormed(dataset) /\ AllEmpty(dataset.temp)
          /\ Targets(dataset, last'.nodes) \subseteq Nodes(dataset) )
        => \A e \in Nodes(dataset) :
             LET box == PushDeposit(dataset, last'.nodes, e)
                 out == [k \in 1..Len(box) |-> Column(dataset, last'.data)[box[k] + 1]]
             IN  box # <<>>
                 => /\ last'.data \in ColKeys(dataset')
                    /\ Column(dataset', last'.data)[e + 1] = Reducer(last'.func, out) ]_vars

\* C14: reset_temp with a non-empty list of node indices empties the listed
\* mailboxes only, every other mailbox and the number of slots staying as
\* they were; with no index it leaves one empty mailbox per node.
C14_ResetClearsListed ==
    [][ ( /\ last'.op = "reset_temp"
          /\ WellFormed(dataset)
          /\ SeqToSet(last'.nodes) \subseteq Nodes(dataset) )
        => IF last'.nodes = <<>>
           THEN Len(dataset'.temp) = dataset.count /\ AllEmpty(dataset'.temp)
           ELSE /\ Len(dataset'.temp) = dataset.count
                /\ \A m \in 1..dataset.count :
                     dataset'.temp[m] = IF (m - 1) \in SeqToSet(last'.nodes)
                                        THEN <<>> ELSE dataset.temp[m] ]_vars

\* C15: loading an artifact that lacks one of the four top-level fields
\* fails with the file-not-found error, and a load that has all four
\* succeeds.
C15_LoadChecksFields ==
    last.op = "load"
    => (last.err = IF ArtifactFields \subseteq last.arg
                   THEN "none" ELSE "FileNotFoundError")

\* C16: once a subgraph has been constructed over a list of parent indices,
\* get_parent_node on any of its child indices returns without an error
\* and leaves its count, columns, edge table and child-to-parent map as they
\* were.
C16_MaterializedReturned ==
    sub.status # "none"
    => /\ \A c \in SeqToSet(sub.i_nodes) :
            LET view == [sub EXCEPT !.err = "none"]
                r    == GetParentNode(view, dataset, default_data, <<c>>, FALSE, FALSE).sb
            IN  /\ r.err = "none"
                /\ r.dataset = sub.dataset
                /\ r.p_nodes = sub.p_nodes
                /\ r.i_nodes = sub.i_nodes
       /\ sub.status = "built"

\* C17: a snapshot returned by get is detached from the store: an add call,
\* whatever nodes it is given (a snapshot obtained from get included) and
\* with or without add_self, leaves the edge set of every node the store
\* already had as it was.
C17_SnapshotDetached ==
    [][ last'.op = "add"
        => /\ Len(dataset'.edges) >= Len(dataset.edges)
           /\ \A i \in 1..Len(dataset.edges) :
                dataset'.edges[i] = dataset.edges[i] ]_vars

\* C18: a snapshot obtained earlier from get still holds the values it was
\* given after a later get, push or pull has read nodes: its data mapping is
\* the same before and after the later call.
C18_SnapshotsKeepValues ==
    [][ (held.kind = "snap" /\ last'.op \in {"get", "push", "pull"})
        => NodeData(default_data', Snapshot(held.src))
             = NodeData(default_data, Snapshot(held.src)) ]_vars

\* The indices a filter result holds, as a list.
Indices(ret) == IF ret.dim = 0 THEN <<ret.val>> ELSE ret.val

C20_NoReducerFrame ==
    [][ (last'.op \in {"push", "pull"} /\ last'.func = "none")
        => /\ dataset'.count = dataset.count
           /\ dataset'.data = dataset.data
           /\ dataset'.edges = dataset.edges ]_vars

\* A pull without a reducer and with reset=false has returned on a store
\* with a column, leaving a snapshot in a mailbox.
C20_Witness ==
    /\ last.op = "pull" /\ last.func = "none" /\ last.err = "none" /\ ~last.reset
    /\ dataset.data # <<>>
    /\ \E m \in 1..Len(dataset.temp) : dataset.temp[m] # <<>>

==========================================================================
